---- MODULE Spec2Model ----
(***************************************************************************)
(* Model of asset_allocation_dashboard.py: the cached indicator fetcher,   *)
(* the regime classifier, the allocation lookup, the optional news         *)
(* analysis and the render cycle (main) that ties them together.           *)
(*                                                                         *)
(* Numbers.  Prices are whole dollars.  Spreads are held in hundredths of  *)
(* a percent, so the thresholds 3.5 and 5.0 of the source are 350 and 500. *)
(* A value handed around by the program is a record [k, v]: k = "num" for  *)
(* a finite number v, "nan" for the float NaN, "none" for Python's None.   *)
(*                                                                         *)
(* Strings.  A string is a sequence of text chunks; the Korean words the   *)
(* code searches for are written in romanised form:                        *)
(*   "pyeongongi" = the word for the calm regime,                          *)
(*   "gongpogi"   = the word for the fear regime,                          *)
(*   "gyeonggyegi" = the word for the caution regime,                      *)
(*   "silsigan jindan (jadong)" = the live-diagnosis selector entry.       *)
(* The Python test  w in s  is Contains(s, w).                             *)
(***************************************************************************)
EXTENDS Integers, Sequences, FiniteSets, TLC

VARIABLES now, cache, page, inp, out

vars == <<now, cache, page, inp, out>>

-----------------------------------------------------------------------------
(* Bounds of the explored input space *)

MaxDelta == 1
MaxLen == 2
MaxTime == 5400

-----------------------------------------------------------------------------
(* Values *)

Num(n) == [k |-> "num", v |-> n]
NaN == [k |-> "nan", v |-> 0]
None == [k |-> "none", v |-> 0]

IsNum(x) == x.k = "num"

\* Python float comparison: any comparison with NaN is False.
Lt(a, b) == IsNum(a) /\ IsNum(b) /\ a.v < b.v
Gt(a, b) == IsNum(a) /\ IsNum(b) /\ a.v > b.v

SPREAD_CALM == 350
SPREAD_FEAR == 500

Contains(s, w) == \E i \in DOMAIN s : s[i] = w

CALM == <<"pyeongongi", " (Risk On)">>
FEAR == <<"gongpogi", " (Risk Off)">>
CAUTION == <<"gyeonggyegi", " (Neutral/Caution)">>
AUTO == <<"silsigan jindan (jadong)">>

Labels == {CALM, FEAR, CAUTION}

-----------------------------------------------------------------------------
(* 3. determine_market_regime: the returned tuple (label, colour name,     *)
(* background, text colour); a None argument makes the comparison raise.   *)

Ret(val) == [exc |-> "", val |-> val]
Raise(e) == [exc |-> e, val |-> <<>>]

determine_market_regime_swapped(price, ma200, spread) ==
    IF price.k = "none" \/ ma200.k = "none" \/ spread.k = "none"
    THEN Raise("TypeError")
    ELSE IF Lt(spread, Num(SPREAD_CALM)) /\ Gt(price, ma200)
    THEN Ret(<<FEAR, "red", "#f8d7da", "#721c24">>)
    ELSE IF Gt(spread, Num(SPREAD_FEAR)) /\ Lt(price, ma200)
    THEN Ret(<<CALM, "green", "#d4edda", "#155724">>)
    ELSE Ret(<<CAUTION, "orange", "#fff3cd", "#856404">>)

determine_market_regime_no_fear(price, ma200, spread) ==
    IF price.k = "none" \/ ma200.k = "none" \/ spread.k = "none"
    THEN Raise("TypeError")
    ELSE IF Lt(spread, Num(SPREAD_CALM)) /\ Gt(price, ma200)
    THEN Ret(<<CALM, "green", "#d4edda", "#155724">>)
    ELSE Ret(<<CAUTION, "orange", "#fff3cd", "#856404">>)

determine_market_regime_nonstrict(price, ma200, spread) ==
    IF price.k = "none" \/ ma200.k = "none" \/ spread.k = "none"
    THEN Raise("TypeError")
    ELSE IF ~Gt(spread, Num(SPREAD_CALM)) /\ ~Lt(price, ma200)
    THEN Ret(<<CALM, "green", "#d4edda", "#155724">>)
    ELSE IF ~Lt(spread, Num(SPREAD_FEAR)) /\ ~Gt(price, ma200)
    THEN Ret(<<FEAR, "red", "#f8d7da", "#721c24">>)
    ELSE Ret(<<CAUTION, "orange", "#fff3cd", "#856404">>)

determine_market_regime(price, ma200, spread) ==
    IF price.k = "none" \/ ma200.k = "none" \/ spread.k = "none"
    THEN Raise("TypeError")
    ELSE IF Lt(spread, Num(SPREAD_CALM)) /\ Gt(price, ma200)
    THEN Ret(<<CALM, "green", "#d4edda", "#155724">>)
    ELSE IF Gt(spread, Num(SPREAD_FEAR)) /\ Lt(price, ma200)
    THEN Ret(<<FEAR, "red", "#f8d7da", "#721c24">>)
    ELSE Ret(<<CAUTION, "orange", "#fff3cd", "#856404">>)

-----------------------------------------------------------------------------
(* 4. get_portfolio_weights: the data frame as a sequence of rows          *)

tickers == <<"QQQ", "ITA", "EMXC", "SHYG", "TLT", "GLD", "BIL">>

desc == <<"Nasdaq 100", "US defense", "Emerging markets ex-China",
          "High-yield bonds", "US long treasuries", "Gold",
          "Ultra-short bonds (cash)">>

DataFrame(t, w, d) ==
    [i \in 1..Len(t) |-> [asset |-> t[i], weight |-> w[i], desc |-> d[i]]]

get_portfolio_weights_default_typo(regime_code) ==
    IF Contains(regime_code, "pyeongongi")
    THEN DataFrame(tickers, <<40, 0, 20, 40, 0, 0, 0>>, desc)
    ELSE IF Contains(regime_code, "gongpogi")
    THEN DataFrame(tickers, <<0, 0, 0, 0, 50, 20, 30>>, desc)
    ELSE DataFrame(tickers, <<20, 10, 0, 30, 20, 30, 0>>, desc)

get_portfolio_weights_fear_first(regime_code) ==
    IF Contains(regime_code, "gongpogi") \/ Contains(regime_code, "gyeonggyegi")
    THEN DataFrame(tickers, <<0, 0, 0, 0, 50, 20, 30>>, desc)
    ELSE IF Contains(regime_code, "pyeongongi")
    THEN DataFrame(tickers, <<40, 0, 20, 40, 0, 0, 0>>, desc)
    ELSE DataFrame(tickers, <<20, 10, 0, 30, 20, 20, 0>>, desc)

get_portfolio_weights(regime_code) ==
    IF Contains(regime_code, "pyeongongi")
    THEN DataFrame(tickers, <<40, 0, 20, 40, 0, 0, 0>>, desc)
    ELSE IF Contains(regime_code, "gongpogi")
    THEN DataFrame(tickers, <<0, 0, 0, 0, 50, 20, 30>>, desc)
    ELSE DataFrame(tickers, <<20, 10, 0, 30, 20, 20, 0>>, desc)

-----------------------------------------------------------------------------
(* 2. get_financial_data                                                   *)
(*                                                                         *)
(* The price provider either raises or returns a history, held as          *)
(* [len, last, mean200]: the number of rows, the last close and the mean   *)
(* of the last WINDOW closes (meaningful only when len >= WINDOW).  The    *)
(* spread provider either raises or returns a series: a sequence of rows   *)
(* [date, value] whose value may be NaN (a missing observation).           *)

WINDOW == 200
TTL == 3600

Closes == {400, 500}
Means == {480}
HistLens == {WINDOW - 1, WINDOW}
SpreadValues == {600}
MaxRows == 1

PriceOutcomes ==
    {[kind |-> "raise", len |-> 0, last |-> NaN, mean200 |-> NaN],
     [kind |-> "hist", len |-> 0, last |-> NaN, mean200 |-> NaN]}
    \cup {[kind |-> "hist", len |-> n, last |-> Num(p), mean200 |-> Num(m)] :
             n \in {l \in HistLens : l > 0}, p \in Closes, m \in Means}

SeriesValues == {NaN} \cup {Num(s) : s \in SpreadValues}

Series ==
    UNION {[1..n -> SeriesValues] : n \in 0..MaxRows}

SpreadOutcomes ==
    {[kind |-> "raise", rows |-> <<>>]}
    \cup {[kind |-> "series", rows |-> r] : r \in Series}

\* the index of row i of the series, formatted by strftime('%Y-%m-%d')
DateOf(i) == [k |-> "date", v |-> i]

\* qqq_hist['Close'].rolling(window=200).mean().iloc[-1]
RollingMeanLast(hist) == IF hist.len >= WINDOW THEN hist.mean200 ELSE NaN

\* spread_data.dropna(): the rows that hold a value, with their index
dropna(rows) == SelectSeq([i \in DOMAIN rows |-> [date |-> DateOf(i), value |-> rows[i]]],
                          LAMBDA r : IsNum(r.value))

NoData == <<None, None, None, None>>

Fetched(val, msgs, calls) == [exc |-> "", val |-> val, msgs |-> msgs, calls |-> calls]

\* one entry of the log of calls to the outside, with what came back
Call(fn, outcome) == [fn |-> fn, outcome |-> outcome]

\* the body of the try block: exc is the exception it raises, if any
FetchBody(po, so) ==
    IF po.kind = "raise"
    THEN [exc |-> "yfinance error", val |-> NoData, msgs |-> <<>>,
          calls |-> <<Call("yf.history", "raise")>>]
    ELSE IF po.len = 0
    THEN Fetched(NoData, <<<<"QQQ data unavailable", "">>>>,
                 <<Call("yf.history", "empty")>>)
    ELSE LET current_price == po.last
             current_ma200 == RollingMeanLast(po)
             spread_data == dropna(so.rows)
         IN  IF so.kind = "raise"
             THEN [exc |-> "fred error", val |-> NoData, msgs |-> <<>>,
                   calls |-> <<Call("yf.history", "rows"),
                               Call("fred.DataReader", "raise")>>]
             ELSE IF Len(spread_data) = 0
             THEN [exc |-> "IndexError", val |-> NoData, msgs |-> <<>>,
                   calls |-> <<Call("yf.history", "rows"),
                               Call("fred.DataReader", "no values")>>]
             ELSE Fetched(<<current_price, current_ma200,
                            spread_data[Len(spread_data)].value,
                            spread_data[Len(spread_data)].date>>,
                          <<>>,
                          <<Call("yf.history", "rows"),
                            Call("fred.DataReader", "values")>>)

get_financial_data_no_except(po, so) == FetchBody(po, so)

get_financial_data(po, so) ==
    LET b == FetchBody(po, so)
    IN  IF b.exc # ""
        THEN Fetched(NoData, <<<<"fetch error", b.exc>>>>, b.calls)
        ELSE b

-----------------------------------------------------------------------------
(* @st.cache_data(ttl=3600): one entry (the function has no arguments)     *)
(* holding the returned value and the elements the call displayed, which   *)
(* are replayed on a hit.  An entry is valid while now < time + ttl.  A    *)
(* call that raises stores nothing.                                        *)

EmptyCache == [filled |-> FALSE, time |-> 0, val |-> NoData, msgs |-> <<>>]

CacheValid_forever(c, t) == c.filled

CacheValid(c, t) == c.filled /\ t < c.time + TTL

cached_get_financial_data(c, t, po, so) ==
    IF CacheValid(c, t)
    THEN [res |-> Fetched(c.val, c.msgs, <<>>), cache |-> c]
    ELSE LET r == get_financial_data(po, so)
         IN  [res |-> r,
              cache |-> IF r.exc = ""
                        THEN [filled |-> TRUE, time |-> t, val |-> r.val, msgs |-> r.msgs]
                        ELSE c]

-----------------------------------------------------------------------------
(* 5. analyze_latest_market_risks                                          *)
(*                                                                         *)
(* key: "GEMINI_API_KEY" in st.secrets.  search: the outcome of ddgs.news  *)
(* for each keyword, "raise", "empty" or "news".  gen: the outcome of      *)
(* model.generate_content, "raise" or "ok".                                *)

keywords == <<"US High Yield Spread", "Nasdaq 100 Crash", "Fed Rate Hike">>

SearchOutcome == {"raise", "empty", "news"}
GenOutcome == {"raise", "ok"}

\* the for loop over keywords from index i: collected_news, the provider
\* calls made and the exception raised, if any
RECURSIVE SearchLoop(_, _, _, _)
SearchLoop(i, search, collected_news, calls) ==
    IF i > Len(keywords)
    THEN [exc |-> "", news |-> collected_news, calls |-> calls]
    ELSE IF search[i] = "raise"
    THEN [exc |-> "search error", news |-> collected_news,
          calls |-> Append(calls, Call("ddgs.news", "raise"))]
    ELSE SearchLoop(i + 1, search,
                    IF search[i] = "news"
                    THEN Append(collected_news, keywords[i])
                    ELSE collected_news,
                    Append(calls, Call("ddgs.news", search[i])))

\* a returned text: what it says and the variable part it embeds
Text(kind, detail) == <<[kind |-> kind, detail |-> detail]>>

Analysis(text, calls) == [exc |-> "", text |-> text, calls |-> calls]

\* the body of the try block
AnalysisBody(search, gen) ==
    LET s == SearchLoop(1, search, <<>>, <<>>)
    IN  IF s.exc # ""
        THEN [exc |-> s.exc, text |-> <<>>, calls |-> s.calls]
        ELSE IF Len(s.news) = 0
        THEN Analysis(Text("no news found", <<>>), s.calls)
        ELSE IF gen = "raise"
        THEN [exc |-> "generation error", text |-> <<>>,
              calls |-> Append(s.calls, Call("gemini.generate_content", "raise"))]
        ELSE Analysis(Text("response.text", s.news),
                      Append(s.calls, Call("gemini.generate_content", "ok")))

\* the lookup  "GEMINI_API_KEY" in st.secrets
SecretsLookup(key) == <<Call("st.secrets", IF key THEN "present" ELSE "absent")>>

analyze_latest_market_risks_no_except(key, search, gen) ==
    IF ~key
    THEN Analysis(Text("GEMINI_API_KEY not set", <<>>), SecretsLookup(key))
    ELSE LET b == AnalysisBody(search, gen)
         IN  [b EXCEPT !.calls = SecretsLookup(key) \o b.calls]

analyze_latest_market_risks(key, search, gen) ==
    IF ~key
    THEN Analysis(Text("GEMINI_API_KEY not set", <<>>), SecretsLookup(key))
    ELSE LET b == AnalysisBody(search, gen)
         IN  IF b.exc # ""
             THEN Analysis(Text("analysis error", <<b.exc>>), SecretsLookup(key) \o b.calls)
             ELSE [b EXCEPT !.calls = SecretsLookup(key) \o b.calls]

-----------------------------------------------------------------------------
(* 6. main: one render cycle.  The result is the page it leaves: what was  *)
(* displayed, which provider calls were made, and the uncaught exception   *)
(* (exc) that ended the cycle, if any.                                     *)

SimModes == {AUTO, CALM, CAUTION, FEAR}

BlankPage ==
    [loaded |-> FALSE, exc |-> "", calls |-> <<>>, errors |-> <<>>,
     result |-> NoData, metrics |-> <<>>, classified |-> <<>>,
     sim_mode |-> AUTO, regime_text |-> <<>>, is_simulated |-> FALSE,
     portfolio |-> <<>>, button |-> FALSE, analysis |-> <<>>]

\* the simulation selector: (regime_text, color_name, bg_color, text_color)
Selected(sim_mode, real) ==
    IF sim_mode = AUTO THEN real
    ELSE IF Contains(sim_mode, "pyeongongi")
    THEN <<CALM, "green", "#d4edda", "#155724">>
    ELSE IF Contains(sim_mode, "gongpogi")
    THEN <<FEAR, "red", "#f8d7da", "#721c24">>
    ELSE <<CAUTION, "orange", "#fff3cd", "#856404">>

PriceGuard(val) == val[1] = None

main(r, sim_mode, button, key, search, gen) ==
    LET base == [BlankPage EXCEPT !.loaded = TRUE, !.calls = r.calls,
                                  !.sim_mode = sim_mode, !.button = button]
    IN  IF r.exc # "" THEN [base EXCEPT !.exc = r.exc]
        ELSE LET p1 == [base EXCEPT !.result = r.val, !.errors = r.msgs]
                 price == r.val[1]
                 ma200 == r.val[2]
                 spread == r.val[3]
             IN  IF PriceGuard(r.val) THEN p1
                 \* the metrics format price - ma200 and spread with :.2f
                 ELSE IF price.k = "none" \/ ma200.k = "none" \/ spread.k = "none"
                 THEN [p1 EXCEPT !.exc = "TypeError"]
                 ELSE LET p2 == [p1 EXCEPT !.metrics = r.val,
                                           !.classified = <<<<price, ma200, spread>>>>]
                          real == determine_market_regime(price, ma200, spread)
                      IN  IF real.exc # "" THEN [p2 EXCEPT !.exc = real.exc]
                          ELSE LET sel == Selected(sim_mode, real.val)
                                   p3 == [p2 EXCEPT !.regime_text = sel[1],
                                                    !.is_simulated = (sim_mode # AUTO),
                                                    !.portfolio = get_portfolio_weights(sel[1])]
                                   a == analyze_latest_market_risks(key, search, gen)
                               IN  IF ~button THEN p3
                                   ELSE IF a.exc # ""
                                   THEN [p3 EXCEPT !.calls = r.calls \o a.calls,
                                                   !.exc = a.exc]
                                   ELSE [p3 EXCEPT !.calls = r.calls \o a.calls,
                                                   !.analysis = a.text]

-----------------------------------------------------------------------------
(* The dashboard: render cycles of one browser session against the shared  *)
(* cache, with the clock advancing between them.  Every widget event       *)
(* reruns main from the top.                                               *)

Init ==
    /\ now = 0
    /\ cache = EmptyCache
    /\ page = BlankPage
    /\ inp = [fn |-> "", args |-> <<>>, snapshot |-> <<>>]
    /\ out = [ret |-> Ret(<<>>), table |-> <<>>]

AllEmpty == [i \in 1..Len(keywords) |-> "empty"]

\* One scenario per distinguishable behaviour of the analysis providers: an
\* outcome the code never consults is held at a fixed value.
AnalysisScenarios ==
    {sc \in [key : BOOLEAN, search : [1..Len(keywords) -> SearchOutcome], gen : GenOutcome] :
        /\ ~sc.key => sc.search = AllEmpty /\ sc.gen = "ok"
        /\ \A i \in 1..Len(keywords) :
              sc.search[i] = "raise" =>
                 /\ sc.gen = "ok"
                 /\ \A j \in (i+1)..Len(keywords) : sc.search[j] = "empty"
        /\ sc.search = AllEmpty => sc.gen = "ok"}

NoAnalysis == [key |-> FALSE, search |-> AllEmpty, gen |-> "ok"]

\* the spread provider is consulted only after a non-empty price history
ProviderScenarios ==
    {sc \in [po : PriceOutcomes, so : SpreadOutcomes] :
        (sc.po.kind = "raise" \/ sc.po.len = 0) => sc.so = [kind |-> "raise", rows |-> <<>>]}

\* a rerun of the script: the cached fetch, then the rest of main
Rerun(sim_mode, button, an) ==
    \E pr \in IF CacheValid(cache, now)
              THEN {CHOOSE sc \in ProviderScenarios : TRUE}
              ELSE ProviderScenarios :
        LET c == cached_get_financial_data(cache, now, pr.po, pr.so)
        IN  /\ cache' = c.cache
            /\ page' = main(c.res, sim_mode, button, an.key, an.search, an.gen)
            /\ UNCHANGED <<now, inp, out>>

\* the page is opened (or reloaded): a fresh session, the selector at its
\* first entry, the button not pressed
Load == Rerun(AUTO, FALSE, NoAnalysis)

\* the user picks an entry of the simulation selector
SelectMode(m) ==
    /\ page.loaded
    /\ Rerun(m, FALSE, NoAnalysis)

\* the user presses the analysis button; the selector keeps its value
PressButton ==
    /\ page.loaded
    /\ \E an \in AnalysisScenarios : Rerun(page.sim_mode, TRUE, an)

TickSteps == {TTL \div 2, TTL}

Tick ==
    /\ \E dt \in TickSteps :
          /\ now + dt <= MaxTime
          /\ now' = now + dt
    /\ UNCHANGED <<cache, page, inp, out>>

Next ==
    \/ Load
    \/ \E m \in SimModes : SelectMode(m)
    \/ PressButton
    \/ Tick

Spec == Init /\ [][Next]_vars

-----------------------------------------------------------------------------
(* The pure functions applied to inputs drawn from bounded sets            *)

FnPrices == {-1, 0, 400, 500} \cup {480 + i : i \in (-MaxDelta)..MaxDelta}

FnSpreads ==
    {-100, 0, 200, 400, 600}
    \cup {SPREAD_CALM + i : i \in (-MaxDelta)..MaxDelta}
    \cup {SPREAD_FEAR + i : i \in (-MaxDelta)..MaxDelta}

Chunks == {"pyeongongi", "gongpogi", "gyeonggyegi", " (Risk On)", " (Risk Off)",
           " (Neutral/Caution)", "silsigan jindan (jadong)", "other text"}

Strings == UNION {[1..n -> Chunks] : n \in 0..MaxLen}

Classify(price, ma200, spread) ==
    /\ inp' = [fn |-> "determine_market_regime",
               args |-> <<Num(price), Num(ma200), Num(spread)>>, snapshot |-> <<>>]
    /\ out' = [ret |-> determine_market_regime(Num(price), Num(ma200), Num(spread)),
               table |-> <<>>]
    /\ UNCHANGED <<now, cache, page>>

Lookup(regime_code) ==
    /\ inp' = [fn |-> "get_portfolio_weights", args |-> <<regime_code>>, snapshot |-> <<>>]
    /\ out' = [ret |-> Ret(<<>>), table |-> get_portfolio_weights(regime_code)]
    /\ UNCHANGED <<now, cache, page>>

\* the label just returned by the classifier is looked up, as main does
LookupReturned ==
    /\ inp.fn = "determine_market_regime"
    /\ out.ret.exc = ""
    /\ inp' = [fn |-> "get_portfolio_weights", args |-> <<out.ret.val[1]>>,
               snapshot |-> inp.args]
    /\ out' = [ret |-> Ret(<<>>), table |-> get_portfolio_weights(out.ret.val[1])]
    /\ UNCHANGED <<now, cache, page>>

\* the same lookup again
LookupAgain ==
    /\ inp.fn = "get_portfolio_weights"
    /\ inp' = [inp EXCEPT !.snapshot = <<>>]
    /\ out' = [ret |-> Ret(<<>>), table |-> get_portfolio_weights(inp.args[1])]
    /\ UNCHANGED <<now, cache, page>>

NextFn ==
    \/ \E price \in FnPrices, ma200 \in FnPrices, spread \in FnSpreads :
          Classify(price, ma200, spread)
    \/ \E regime_code \in Strings : Lookup(regime_code)
    \/ LookupReturned
    \/ LookupAgain

SpecFn == Init /\ [][NextFn]_vars

-----------------------------------------------------------------------------
(* Properties of the pure functions, checked under SpecFn                  *)

Classified == inp.fn = "determine_market_regime"
LookedUp == inp.fn = "get_portfolio_weights"

ArgPrice == inp.args[1].v
ArgMa200 == inp.args[2].v
ArgSpread == inp.args[3].v
RetLabel == out.ret.val[1]

Weights(table) == [i \in DOMAIN table |-> table[i].weight]
Assets(table) == [i \in DOMAIN table |-> table[i].asset]

RECURSIVE SumSeq(_)
SumSeq(q) == IF Len(q) = 0 THEN 0 ELSE q[1] + SumSeq(Tail(q))

\* C1: every input with spread < 3.5 and price > ma200 is classified CALM.
C1_CalmRule ==
    (Classified /\ ArgSpread < 350 /\ ArgPrice > ArgMa200)
        => (out.ret.exc = "" /\ RetLabel = CALM)

C1_Witness ==
    /\ Classified
    /\ inp.args = <<Num(500), Num(480), Num(349)>>
    /\ RetLabel = CALM

\* C2: every input with spread > 5.0 and price < ma200 is classified FEAR.
C2_FearRule ==
    (Classified /\ ArgSpread > 500 /\ ArgPrice < ArgMa200)
        => (out.ret.exc = "" /\ RetLabel = FEAR)

C2_Witness ==
    /\ Classified
    /\ inp.args = <<Num(479), Num(480), Num(501)>>
    /\ RetLabel = FEAR

\* C3: every finite input gets exactly one of the three labels, and it is
\* CAUTION whenever neither the CALM rule nor the FEAR rule applies, in
\* particular at spread = 3.5, spread = 5.0 and price = ma200.
C3_CautionOtherwise ==
    Classified =>
        /\ out.ret.exc = ""
        /\ RetLabel \in {CALM, CAUTION, FEAR}
        /\ (~(ArgSpread < 350 /\ ArgPrice > ArgMa200)
              /\ ~(ArgSpread > 500 /\ ArgPrice < ArgMa200)) => RetLabel = CAUTION
        /\ (ArgSpread = 350 \/ ArgSpread = 500 \/ ArgPrice = ArgMa200)
              => RetLabel = CAUTION

C3_Witness ==
    /\ Classified
    /\ inp.args = <<Num(500), Num(480), Num(350)>>
    /\ RetLabel = CAUTION

\* C4: for each label the classifier returns, the lookup gives the 7 rows
\* QQQ, ITA, EMXC, SHYG, TLT, GLD, BIL with the weights of that regime's
\* column, so the three example snapshots get the CALM, FEAR and CAUTION
\* weights.
C4_TableOfLabel ==
    LookedUp =>
        /\ inp.args[1] \in {CALM, CAUTION, FEAR} =>
              /\ Assets(out.table) = <<"QQQ", "ITA", "EMXC", "SHYG", "TLT", "GLD", "BIL">>
              /\ inp.args[1] = CALM => Weights(out.table) = <<40, 0, 20, 40, 0, 0, 0>>
              /\ inp.args[1] = CAUTION => Weights(out.table) = <<20, 10, 0, 30, 20, 20, 0>>
              /\ inp.args[1] = FEAR => Weights(out.table) = <<0, 0, 0, 0, 50, 20, 30>>
        /\ inp.snapshot = <<Num(500), Num(480), Num(200)>>
              => Weights(out.table) = <<40, 0, 20, 40, 0, 0, 0>>
        /\ inp.snapshot = <<Num(400), Num(480), Num(600)>>
              => Weights(out.table) = <<0, 0, 0, 0, 50, 20, 30>>
        /\ inp.snapshot = <<Num(480), Num(480), Num(400)>>
              => Weights(out.table) = <<20, 10, 0, 30, 20, 20, 0>>

C4_Witness ==
    /\ LookedUp
    /\ inp.snapshot = <<Num(480), Num(480), Num(400)>>
    /\ inp.args[1] = CAUTION
    /\ Weights(out.table) = <<20, 10, 0, 30, 20, 20, 0>>

\* C5: for every regime argument (labels, selector entries, any other
\* string) the table has 7 entries, every weight is an integer in 0..100,
\* the weights sum to 100, and a repeated call with the same argument gives
\* the same table.
C5_TableShape ==
    /\ [](LookedUp =>
            /\ Len(out.table) = 7
            /\ \A i \in 1..Len(out.table) : out.table[i].weight \in 0..100
            /\ SumSeq(Weights(out.table)) = 100)
    /\ [][(LookedUp /\ inp'.fn = "get_portfolio_weights" /\ inp'.args = inp.args)
             => out'.table = out.table]_vars

C5_Witness ==
    /\ LookedUp
    /\ inp.args[1] = <<"other text", "silsigan jindan (jadong)">>
    /\ Len(out.table) = 7
    /\ SumSeq(Weights(out.table)) = 100

\* C10: as the criteria text of the dashboard says, an input classified
\* CAUTION has its spread in [3.5, 5.0] or its price below ma200.
C10_CriteriaText ==
    (Classified /\ out.ret.exc = "" /\ RetLabel = CAUTION)
        => (ArgSpread \in 350..500 \/ ArgPrice < ArgMa200)

-----------------------------------------------------------------------------
(* Properties of the render cycle, checked under Spec                      *)

Called(fn) == \E i \in DOMAIN page.calls : page.calls[i].fn = fn
CalledWith(fn, outcome) == \E i \in DOMAIN page.calls : page.calls[i] = Call(fn, outcome)

\* a data provider failed in the render cycle that produced the page
ProviderFailed ==
    \/ CalledWith("yf.history", "raise")
    \/ CalledWith("yf.history", "empty")
    \/ CalledWith("fred.DataReader", "raise")
    \/ CalledWith("fred.DataReader", "no values")

\* C6: the classifier is never invoked with a missing input: whenever it is
\* called, price, ma200 and spread are all defined numbers.
C6_NoMissingInput ==
    \A i \in DOMAIN page.classified :
        \A j \in 1..3 : IsNum(page.classified[i][j])

\* C7: when a data provider fails in a render cycle, get_financial_data
\* raises nothing, one error message is shown, the result is the no-data
\* result, and main ends the cycle without classifying and without showing
\* indicators, a regime or a portfolio.
C7_ProviderFailure ==
    ProviderFailed =>
        /\ page.exc = ""
        /\ Len(page.errors) = 1
        /\ page.result = <<None, None, None, None>>
        /\ page.classified = <<>>
        /\ page.metrics = <<>>
        /\ page.regime_text = <<>>
        /\ page.portfolio = <<>>
        /\ page.analysis = <<>>
        /\ ~Called("ddgs.news") /\ ~Called("gemini.generate_content")

C7_Witness ==
    /\ CalledWith("fred.DataReader", "no values")
    /\ page.button
    /\ page.exc = ""
    /\ page.errors = <<<<"fetch error", "IndexError">>>>
    /\ page.result = <<None, None, None, None>>
    /\ page.classified = <<>>

\* C8: a render cycle less than 3600 seconds after the fetch that filled
\* the cache calls no data provider and sees exactly the result and the
\* messages of that fetch; a render cycle with no entry, or with an entry
\* 3600 seconds old or older, calls the price provider and its result
\* fills the cache at the current time; the cache changes in no other step.
C8_CacheWindow ==
    /\ [][(now' = now /\ cache.filled /\ now - cache.time < 3600) =>
             /\ \A i \in DOMAIN page'.calls :
                   page'.calls[i].fn \notin {"yf.history", "fred.DataReader"}
             /\ page'.result = cache.val
             /\ page'.errors = cache.msgs
             /\ cache' = cache]_vars
    /\ [][(now' = now /\ ~(cache.filled /\ now - cache.time < 3600)) =>
             /\ page'.calls # <<>>
             /\ page'.calls[1].fn = "yf.history"
             /\ cache'.filled /\ cache'.time = now
             /\ cache'.val = page'.result
             /\ cache'.msgs = page'.errors]_vars
    /\ [][now' # now => cache' = cache]_vars

C8_Witness ==
    /\ page.loaded
    /\ cache.filled
    /\ now = cache.time + 1800
    /\ ~Called("yf.history")
    /\ page.result = <<None, None, None, None>>
    /\ page.errors = <<<<"QQQ data unavailable", "">>>>

====
